---- MODULE Spec2Model ----
(***************************************************************************)
(* Model of faim_hcs/stitching/stitching_utils.py: the three fusion        *)
(* policies (fuse_linear, fuse_mean, fuse_sum), the tile translation        *)
(* (translate_tiles_2d), the block assembler (assemble_chunk) and the       *)
(* origin normalisation (shift_to_origin).                                  *)
(*                                                                         *)
(* Arrays are functions from pixel coordinates <<r, c>> (0-based) to        *)
(* values; a stack of arrays is a sequence of such functions.  Integer      *)
(* pixel values live in an unsigned dtype of DtypeBits bits.  Floating      *)
(* point values are modelled exactly: a non-negative binary float is a      *)
(* 5-limb fixed point number (see the section "binary floating point")      *)
(* and every arithmetic operation rounds to the precision numpy uses at     *)
(* that place (float64 in fuse_mean, float32 in fuse_linear).               *)
(***************************************************************************)
EXTENDS Integers, Sequences, FiniteSets, TLC

\* ------------------------------------------------------------------------
\* Bounds of the model
\* ------------------------------------------------------------------------

\* Largest number of tiles in one stack handed to a fusion policy.
MaxTiles == 3

\* Largest width (in pixels) of the one-row blocks of the fusion checks.
MaxWidth == 4

\* Width of the unsigned integer dtype of the tiles (uint8).
DtypeBits == 8

\* Largest y and x coordinate of a tile handed to the block assembler.
MaxCoord == 3

\* Largest number of assemble_chunk invocations per block.
MaxCalls == 2

\* Largest time, channel and z index of a tile handed to shift_to_origin.
MaxIndex == 1

\* Largest absolute y and x coordinate of a tile handed to shift_to_origin.
MaxOffset == 1

\* Largest length of the list handed to shift_to_origin.
MaxLen == 2

\* ------------------------------------------------------------------------
\* Binary floating point
\*
\* A non-negative float is <<i, f1, f2, f3, f4>>: the value
\* i + f1/L + f2/L^2 + f3/L^3 + f4/L^4 with L = 2^18, so every float64 or
\* float32 value between 2^-19 and 2^18 is represented exactly (72 fraction
\* bits).  FRound rounds to `prec` significant bits, to nearest, ties to
\* even, which is what IEEE 754 arithmetic does after each operation.
\* ------------------------------------------------------------------------

Limb == 2^18

\* Significant bits of numpy's float64 (the result type of np.true_divide on
\* a bool array and an integer array) and of np.float32.
Float64Prec == 53
Float32Prec == 24

FZero == <<0, 0, 0, 0, 0>>
FOne == <<1, 0, 0, 0, 0>>
FHalf == <<0, 2^17, 0, 0, 0>>

FromInt(n) == <<n, 0, 0, 0, 0>>

\* x < y
FLess(x, y) ==
    \E i \in 1..5 : x[i] < y[i] /\ \A j \in 1..(i - 1) : x[j] = y[j]

FLeq(x, y) == x = y \/ FLess(x, y)

\* Exact sum.
FAddExact(x, y) ==
    LET s5 == x[5] + y[5]
        s4 == x[4] + y[4] + (s5 \div Limb)
        s3 == x[3] + y[3] + (s4 \div Limb)
        s2 == x[2] + y[2] + (s3 \div Limb)
        s1 == x[1] + y[1] + (s2 \div Limb)
    IN  <<s1, s2 % Limb, s3 % Limb, s4 % Limb, s5 % Limb>>

\* Exact product with a small non-negative integer v (v < 2^12).
FMulExact(x, v) ==
    LET p5 == x[5] * v
        p4 == x[4] * v + (p5 \div Limb)
        p3 == x[3] * v + (p4 \div Limb)
        p2 == x[2] * v + (p3 \div Limb)
        p1 == x[1] * v + (p2 \div Limb)
    IN  <<p1, p2 % Limb, p3 % Limb, p4 % Limb, p5 % Limb>>

\* Number of bits of the limb n: 0 for 0, b when 2^(b-1) <= n < 2^b.
BitLen(n) == CHOOSE b \in 0..31 : n < 2^b /\ (b = 0 \/ n >= 2^(b - 1))

\* Position of the most significant set bit of x # 0; bit 0 is the least
\* significant bit of the last limb.
MsbPos(x) ==
    LET top == CHOOSE i \in 1..5 : x[i] # 0 /\ \A j \in 1..(i - 1) : x[j] = 0
    IN  (5 - top) * 18 + BitLen(x[top]) - 1

\* The number with only bit j set.
Pow2(j) ==
    LET l == 5 - (j \div 18)
    IN  <<IF l = 1 THEN 2^(j % 18) ELSE 0,
          IF l = 2 THEN 2^(j % 18) ELSE 0,
          IF l = 3 THEN 2^(j % 18) ELSE 0,
          IF l = 4 THEN 2^(j % 18) ELSE 0,
          IF l = 5 THEN 2^(j % 18) ELSE 0>>

\* x rounded to prec significant bits, to nearest, ties to even.
FRound(x, prec) ==
    IF x = FZero THEN x
    ELSE LET drop == MsbPos(x) + 1 - prec
         IN  IF drop <= 0 THEN x
             ELSE LET l == 5 - (drop \div 18)
                      m == 2^(drop % 18)
                      part(i) == IF i > l THEN x[i]
                                 ELSE IF i = l THEN x[i] % m ELSE 0
                      rem == <<part(1), part(2), part(3), part(4), part(5)>>
                      low == <<x[1] - rem[1], x[2] - rem[2], x[3] - rem[3],
                               x[4] - rem[4], x[5] - rem[5]>>
                      half == Pow2(drop - 1)
                      odd == (x[l] \div m) % 2 = 1
                      up == FLess(half, rem) \/ (rem = half /\ odd)
                  IN  IF up THEN FAddExact(low, Pow2(drop)) ELSE low

\* fl(x + y), fl(x * v) at precision prec.
FAdd(x, y, prec) == FRound(FAddExact(x, y), prec)
FMul(x, v, prec) == FRound(FMulExact(x, v), prec)

\* fl(n / d) for integers 0 <= n, 0 < d < 2^13, n/d < 2^18: long division to
\* 72 fraction bits, the inexact remainder kept as a sticky last bit.
FDiv(n, d, prec) ==
    LET q1 == n \div d
        r1 == n % d
        q2 == (r1 * Limb) \div d
        r2 == (r1 * Limb) % d
        q3 == (r2 * Limb) \div d
        r3 == (r2 * Limb) % d
        q4 == (r3 * Limb) \div d
        r4 == (r3 * Limb) % d
        q5 == (r4 * Limb) \div d
        r5 == (r4 * Limb) % d
        s5 == IF r5 # 0 /\ q5 % 2 = 0 THEN q5 + 1 ELSE q5
    IN  FRound(<<q1, q2, q3, q4, s5>>, prec)

\* The integer part: a float cast to an integer dtype truncates.
FTrunc(x) == x[1]

\* ------------------------------------------------------------------------
\* Arrays
\* ------------------------------------------------------------------------

\* The pixel coordinates <<r, c>> of an array of yx shape <<h, w>>.
Pixels(shape) == (0..(shape[1] - 1)) \X (0..(shape[2] - 1))

\* ndarray.astype(dtype) for an integer value and the unsigned tile dtype.
AsType(n) == n % (2^DtypeBits)

\* Sum of the integers s[1..n].
RECURSIVE SumTo(_, _)
SumTo(s, n) == IF n = 0 THEN 0 ELSE SumTo(s, n - 1) + s[n]

\* np.sum(..., axis=0) of the floats s[1..n] at precision prec: the first
\* element, then one rounded addition per further element.
RECURSIVE FSumTo(_, _, _)
FSumTo(s, n, prec) ==
    IF n = 1 THEN s[1] ELSE FAdd(FSumTo(s, n - 1, prec), s[n], prec)

ConstantArray(shape, v) == [p \in Pixels(shape) |-> v]

\* ------------------------------------------------------------------------
\* Weights: np.true_divide(..., where=denominator > 0), np.nan_to_num, np.clip
\*
\* A raw weight is a record: kind "num" with a non-negative float val, or one
\* of the kinds "nan", "posinf", "neginf", "negative" (a negative number).
\* np.true_divide is called with `where=` and without `out=`: numpy allocates
\* the result with uninitialised memory and writes only where the condition
\* holds, so every other element is whatever the memory held.
\* ------------------------------------------------------------------------

Num(x) == [kind |-> "num", val |-> x]

\* The values an uninitialised float can have, one of each kind the code's
\* sanitisation distinguishes (NaN, +Inf, -Inf, below 0, inside [0,1], above 1).
Uninitialized ==
    {[kind |-> "nan", val |-> FZero],
     [kind |-> "posinf", val |-> FZero],
     [kind |-> "neginf", val |-> FZero],
     [kind |-> "negative", val |-> FOne],
     Num(FHalf),
     Num(FromInt(3))}

\* Mutant: the condition written where=denominator > 1.
TrueDivideWhereAboveOne(n, d, prec, garbage) ==
    IF d > 1 THEN Num(FDiv(n, d, prec)) ELSE garbage

\* np.true_divide(n, d, where=d > 0) at one element; garbage is the
\* content of the uninitialised result there.
TrueDivide(n, d, prec, garbage) ==
    IF d > 0 THEN Num(FDiv(n, d, prec)) ELSE garbage

\* np.nan_to_num(w, nan=0, posinf=1, neginf=0)
NanToNum(w) ==
    CASE w.kind = "nan" -> Num(FZero)
      [] w.kind = "posinf" -> Num(FOne)
      [] w.kind = "neginf" -> Num(FZero)
      [] OTHER -> w

\* np.clip(w, 0, 1) of a finite weight; the result is a float in [0, 1].
Clip(w) ==
    IF w.kind = "negative" THEN FZero
    ELSE IF FLess(FOne, w.val) THEN FOne ELSE w.val

\* ------------------------------------------------------------------------
\* scipy.ndimage.distance_transform_edt
\* ------------------------------------------------------------------------

Background(mask, shape) == {q \in Pixels(shape) : ~mask[q]}

SqDist(p, q) == (p[1] - q[1]) * (p[1] - q[1]) + (p[2] - q[2]) * (p[2] - q[2])

\* The model computes distances that are integers: those of one-row arrays.
ISqrt(n) == CHOOSE k \in 0..n : k * k = n

\* The documented result is the distance to the nearest background pixel; for
\* a mask without background pixel scipy documents nothing, and the model
\* does not call the transform on such a mask (EdtDefined).
EdtDefined(masks, shape) ==
    \A i \in 1..Len(masks) : Background(masks[i], shape) # {}

\* Mutant: the mask itself taken as the weight, without the transform.
MaskAsDistance(mask, shape) ==
    [p \in Pixels(shape) |-> IF mask[p] THEN 1 ELSE 0]

distance_transform_edt(mask, shape) ==
    [p \in Pixels(shape) |->
        IF ~mask[p] THEN 0
        ELSE LET sq == {SqDist(p, q) : q \in Background(mask, shape)}
             IN  ISqrt(CHOOSE m \in sq : \A o \in sq : m <= o)]

\* ------------------------------------------------------------------------
\* Fusion policies.  g is the content of the uninitialised weights.
\* ------------------------------------------------------------------------

\* fuse_linear, lines 29-45: the weights of every tile at every pixel.
LinearDenominator(edt, p) == SumTo([i \in 1..Len(edt) |-> edt[i][p]], Len(edt))

LinearWeights(masks, shape, g) ==
    IF Len(masks) > 1
    THEN LET edt == [i \in 1..Len(masks) |->
                        distance_transform_edt(masks[i], shape)]
         IN  [i \in 1..Len(masks) |-> [p \in Pixels(shape) |->
                 Clip(NanToNum(TrueDivide(edt[i][p], LinearDenominator(edt, p),
                                          Float32Prec, g)))]]
    ELSE [i \in 1..Len(masks) |-> [p \in Pixels(shape) |->
             IF masks[i][p] THEN FOne ELSE FZero]]

\* fuse_mean, lines 65-71.
MeanDenominator(masks, p) == Cardinality({i \in 1..Len(masks) : masks[i][p]})

MeanWeights(masks, shape, g) ==
    [i \in 1..Len(masks) |-> [p \in Pixels(shape) |->
        Clip(NanToNum(TrueDivide(IF masks[i][p] THEN 1 ELSE 0,
                                 MeanDenominator(masks, p), Float64Prec, g)))]]

\* np.sum(warped_tiles * weights, axis=0).astype(dtype) at precision prec.
\* The cast of a float to the unsigned dtype truncates; a value beyond the
\* dtype's range is reduced modulo 2^DtypeBits, as the x86 builds of numpy do.
WeightedSum(tiles, w, shape, prec) ==
    [p \in Pixels(shape) |->
        AsType(FTrunc(FSumTo([i \in 1..Len(tiles) |->
                                 FMul(w[i][p], tiles[i][p], prec)],
                             Len(tiles), prec)))]

fuse_linear(tiles, masks, shape, g) ==
    WeightedSum(tiles, LinearWeights(masks, shape, g), shape, Float32Prec)

fuse_mean(tiles, masks, shape, g) ==
    WeightedSum(tiles, MeanWeights(masks, shape, g), shape, Float64Prec)

\* fuse_sum, lines 92-93: np.sum accumulates an unsigned array in uint64,
\* astype reduces the sum to the tile dtype.
\* The masks are not read.
\* Mutant: the sum of the tiles weighted by their masks.
SumPixelMasked(tiles, masks, p) ==
    SumTo([i \in 1..Len(tiles) |-> IF masks[i][p] THEN tiles[i][p] ELSE 0],
          Len(tiles))

SumPixel(tiles, masks, p) ==
    SumTo([i \in 1..Len(tiles) |-> tiles[i][p]], Len(tiles))

fuse_sum(tiles, masks, shape) ==
    [p \in Pixels(shape) |-> AsType(SumPixel(tiles, masks, p))]

\* ------------------------------------------------------------------------
\* Tile (faim_hcs/stitching/Tile.py): a record with the fields position
\* (<<time, channel, z, y, x>>), shape (<<height, width>>) and the pixel data
\* load_data() returns.  Tiles are objects: a list of tiles is a sequence of
\* references (TileIds) into the heap.
\* ------------------------------------------------------------------------

TileIds == {1, 2}

get_position(tile) == tile.position

get_yx_position(tile) == <<tile.position[4], tile.position[5]>>

load_data(tile) == tile.data

\* ------------------------------------------------------------------------
\* translate_tiles_2d
\* ------------------------------------------------------------------------

\* cval of skimage.transform.warp: the value of the pixels outside the input.
Cval == 0

\* v[::-1] of a pair
Reversed(v) == <<v[2], v[1]>>

\* EuclideanTransform(translation=<<tx, ty>>), applied to the point <<x, y>>.
Transformed(translation, xy) == <<xy[1] + translation[1], xy[2] + translation[2]>>

\* skimage.transform.warp(image, transform, cval=Cval, output_shape, order=0)
\* for one channel: the output pixel <<r, c>> is the input pixel at
\* transform(<<c, r>>) (x is the column, y the row) when that lies in the
\* input, and cval otherwise.
Warp(image, image_shape, translation, output_shape) ==
    [p \in Pixels(output_shape) |->
        LET xy == Transformed(translation, <<p[2], p[1]>>)
        IN  IF <<xy[2], xy[1]>> \in Pixels(image_shape)
            THEN image[<<xy[2], xy[1]>>]
            ELSE Cval]

\* Lines 116-117.
ChunkYXOrigin(block_info) ==
    <<block_info.array_location[4][1], block_info.array_location[5][1]>>

\* Mutant: the translation left in (y, x) order, without [::-1].
TileTranslationUnreversed(block_info, tile) ==
    LET chunk_yx_origin == ChunkYXOrigin(block_info)
        tile_origin == get_yx_position(tile)
    IN  <<chunk_yx_origin[1] - tile_origin[1],
          chunk_yx_origin[2] - tile_origin[2]>>

\* Lines 121-124: the translation of one tile.
TileTranslation(block_info, tile) ==
    LET chunk_yx_origin == ChunkYXOrigin(block_info)
        tile_origin == get_yx_position(tile)
    IN  Reversed(<<chunk_yx_origin[1] - tile_origin[1],
                   chunk_yx_origin[2] - tile_origin[2]>>)

\* Lines 118-141: the stacks of warped tiles and warped masks.
translate_tiles_2d(block_info, yx_chunk_shape, tiles) ==
    [tiles |-> [i \in 1..Len(tiles) |->
                   LET w == Warp(load_data(tiles[i]), tiles[i].shape,
                                 TileTranslation(block_info, tiles[i]),
                                 yx_chunk_shape)
                   IN  [p \in Pixels(yx_chunk_shape) |-> AsType(w[p])]],
     masks |-> [i \in 1..Len(tiles) |->
                   LET m == Warp(ConstantArray(tiles[i].shape, 1), tiles[i].shape,
                                 TileTranslation(block_info, tiles[i]),
                                 yx_chunk_shape)
                   IN  [p \in Pixels(yx_chunk_shape) |-> m[p] # 0]]]

\* ------------------------------------------------------------------------
\* assemble_chunk
\* ------------------------------------------------------------------------

\* Line 171.
HasTiles(tiles) == Len(tiles) > 0

\* Mutant: np.zeros(chunk_shape[-2:], dtype=dtype).
EmptyChunkYX(chunk_shape) ==
    [shape |-> <<chunk_shape[4], chunk_shape[5]>>, dtype |-> DtypeBits,
     data |-> ConstantArray(<<chunk_shape[4], chunk_shape[5]>>, 0)]

\* Line 182: np.zeros(chunk_shape, dtype=dtype).  A 5-D array is a record of
\* its shape, its dtype and the values of its trailing two dimensions.
EmptyChunk(chunk_shape) ==
    [shape |-> chunk_shape, dtype |-> DtypeBits,
     data |-> ConstantArray(<<chunk_shape[4], chunk_shape[5]>>, 0)]

\* Lines 176-180: fuse_func(...).astype(dtype)[np.newaxis, np.newaxis, np.newaxis, ...]
RunFuse(policy, tiles, masks, shape, g) ==
    CASE policy = "linear" -> fuse_linear(tiles, masks, shape, g)
      [] policy = "mean" -> fuse_mean(tiles, masks, shape, g)
      [] policy = "sum" -> fuse_sum(tiles, masks, shape)

StitchedChunk(fused_image, shape) ==
    [shape |-> <<1, 1, 1, shape[1], shape[2]>>, dtype |-> DtypeBits,
     data |-> [p \in Pixels(shape) |-> AsType(fused_image[p])]]

\* ------------------------------------------------------------------------
\* shift_to_origin
\* ------------------------------------------------------------------------

Min(a, b) == IF a < b THEN a ELSE b

\* Line 200: np.min over the positions of tiles[1..n], component-wise.
RECURSIVE MinTileOrigin(_, _, _)
MinTileOrigin(h, tiles, n) ==
    LET pos == get_position(h[tiles[n]])
    IN  IF n = 1 THEN pos
        ELSE LET m == MinTileOrigin(h, tiles, n - 1)
             IN  [k \in 1..5 |-> Min(m[k], pos[k])]

\* Line 201: copy(tiles) is a new list holding the same tile objects.
ShallowCopy(tiles) == tiles

\* Lines 202-210: the loop assigns each tile of the list, in order, a new
\* position: its current position minus the minimum.
RECURSIVE ShiftLoop(_, _, _, _)
ShiftLoop(h, shifted, k, min_tile_origin) ==
    IF k > Len(shifted) THEN h
    ELSE LET pos == get_position(h[shifted[k]])
         IN  ShiftLoop([h EXCEPT ![shifted[k]].position =
                            [c \in 1..5 |-> pos[c] - min_tile_origin[c]]],
                       shifted, k + 1, min_tile_origin)

\* ------------------------------------------------------------------------
\* State
\* ------------------------------------------------------------------------

VARIABLES
    heap,             \* the tile objects: TileIds -> [position, shape, data]
    \* a fusion policy called on a stack
    warped_tiles,     \* the stack of tile arrays handed to a fusion policy
    warped_masks,     \* the stack of boolean masks, same shape
    yx_shape,         \* <<height, width>> of the arrays of the stack
    fuse_func,        \* the policy that ran: "none", "linear", "mean", "sum"
    weights,          \* the weights that policy computed (<<>> when it has none)
    fused,            \* the array it returned (<<>> before the call)
    \* shift_to_origin
    tiles,            \* the list handed to shift_to_origin
    input_positions,  \* the positions of the tiles of that list before the call
    shifted_tiles,    \* the list it returned (<<>> before the call)
    \* assemble_chunk
    tile_map,         \* chunk location -> list of tiles
    block_infos,      \* chunk location -> block_info of da.map_blocks
    policy,           \* the fuse_func of the run: "linear", "mean", "sum"
    job,              \* chunk location -> the invocation in progress
    stitched,         \* chunk location -> the array last returned (<<>>: none)
    calls             \* chunk location -> invocations, warp and fuse calls so far

fuse_vars == <<warped_tiles, warped_masks, yx_shape, fuse_func, weights, fused>>
shift_vars == <<tiles, input_positions, shifted_tiles>>
assemble_vars == <<tile_map, block_infos, policy, job, stitched, calls>>

vars == <<heap, fuse_vars, shift_vars, assemble_vars>>

\* The parts of the state an operation does not use.
NoTile == [position |-> <<0, 0, 0, 0, 0>>, shape |-> <<1, 1>>,
           data |-> ConstantArray(<<1, 1>>, 0)]

FuseIdle ==
    /\ warped_tiles = <<>>
    /\ warped_masks = <<>>
    /\ yx_shape = <<0, 0>>
    /\ fuse_func = "none"
    /\ weights = <<>>
    /\ fused = <<>>

ShiftIdle ==
    /\ tiles = <<>>
    /\ input_positions = <<>>
    /\ shifted_tiles = <<>>

AssembleIdle ==
    /\ tile_map = <<>>
    /\ block_infos = <<>>
    /\ policy = "none"
    /\ job = <<>>
    /\ stitched = <<>>
    /\ calls = <<>>

\* ------------------------------------------------------------------------
\* The fusion policies on bounded stacks
\* ------------------------------------------------------------------------

\* Pixel values of the tiles: 0, small values and the largest of the dtype.
Values == {0, 1, 5, 2^DtypeBits - 1}

\* A mask that is True on the columns lo..hi of a one-row array (the shape of
\* a mask translate_tiles_2d produces); lo > hi gives the all-False mask.
IntervalMask(shape, lo, hi) ==
    [p \in Pixels(shape) |-> lo <= p[2] /\ p[2] <= hi]

IntervalMasks(shape) ==
    {IntervalMask(shape, lo, hi) :
        lo \in 0..(shape[2] - 1), hi \in (-1)..(shape[2] - 1)}

\* Stacks of one pixel: every combination of values and mask bits.
PixelStacks ==
    UNION {[tiles : [1..n -> {ConstantArray(<<1, 1>>, v) : v \in Values}],
            masks : [1..n -> [Pixels(<<1, 1>>) -> BOOLEAN]],
            shape : {<<1, 1>>}] : n \in 1..MaxTiles}

\* Stacks of two one-row tiles of constant value with interval masks.
RowStacks ==
    UNION {[tiles : {[i \in 1..2 |-> ConstantArray(<<1, w>>, v)] : v \in Values},
            masks : [1..2 -> IntervalMasks(<<1, w>>)],
            shape : {<<1, w>>}] : w \in 2..MaxWidth}

FuseInit ==
    /\ \E s \in PixelStacks \cup RowStacks :
          /\ warped_tiles = s.tiles
          /\ warped_masks = s.masks
          /\ yx_shape = s.shape
    /\ fuse_func = "none"
    /\ weights = <<>>
    /\ fused = <<>>
    /\ heap = [t \in TileIds |-> NoTile]
    /\ ShiftIdle
    /\ AssembleIdle

FuseLinear ==
    /\ fuse_func = "none"
    /\ Len(warped_tiles) = 1 \/ EdtDefined(warped_masks, yx_shape)
    /\ \E g \in Uninitialized :
          /\ weights' = LinearWeights(warped_masks, yx_shape, g)
          /\ fused' = WeightedSum(warped_tiles, weights', yx_shape, Float32Prec)
    /\ fuse_func' = "linear"
    /\ UNCHANGED <<heap, warped_tiles, warped_masks, yx_shape, shift_vars, assemble_vars>>

FuseMean ==
    /\ fuse_func = "none"
    /\ \E g \in Uninitialized :
          /\ weights' = MeanWeights(warped_masks, yx_shape, g)
          /\ fused' = WeightedSum(warped_tiles, weights', yx_shape, Float64Prec)
    /\ fuse_func' = "mean"
    /\ UNCHANGED <<heap, warped_tiles, warped_masks, yx_shape, shift_vars, assemble_vars>>

FuseSum ==
    /\ fuse_func = "none"
    /\ weights' = <<>>
    /\ fused' = fuse_sum(warped_tiles, warped_masks, yx_shape)
    /\ fuse_func' = "sum"
    /\ UNCHANGED <<heap, warped_tiles, warped_masks, yx_shape, shift_vars, assemble_vars>>

FuseNext == FuseLinear \/ FuseMean \/ FuseSum

SpecFuse == FuseInit /\ [][FuseNext]_vars

\* ------------------------------------------------------------------------
\* shift_to_origin on bounded lists
\* ------------------------------------------------------------------------

Positions ==
    {<<t, c, z, y, x>> : t \in 0..MaxIndex, c \in 0..MaxIndex, z \in 0..MaxIndex,
                         y \in (0 - MaxOffset)..MaxOffset,
                         x \in (0 - MaxOffset)..MaxOffset}

\* Every non-empty list of at most MaxLen references to the tile objects.
TileLists == UNION {[1..n -> TileIds] : n \in 1..MaxLen}

ShiftInit ==
    /\ heap \in [TileIds -> {[NoTile EXCEPT !.position = pos] : pos \in Positions}]
    /\ tiles \in TileLists
    /\ input_positions = [i \in 1..Len(tiles) |-> get_position(heap[tiles[i]])]
    /\ shifted_tiles = <<>>
    /\ FuseIdle
    /\ AssembleIdle

ShiftToOrigin ==
    /\ shifted_tiles = <<>>
    /\ LET min_tile_origin == MinTileOrigin(heap, tiles, Len(tiles))
       IN  /\ shifted_tiles' = ShallowCopy(tiles)
           /\ heap' = ShiftLoop(heap, shifted_tiles', 1, min_tile_origin)
    /\ UNCHANGED <<tiles, input_positions, fuse_vars, assemble_vars>>

ShiftNext == ShiftToOrigin

SpecShift == ShiftInit /\ [][ShiftNext]_vars

\* ------------------------------------------------------------------------
\* assemble_chunk on bounded mosaics: two blocks, invoked in any order and
\* interleaving, each at most MaxCalls times.
\* ------------------------------------------------------------------------

ChunkA == <<0, 0, 0, 0, 0>>
ChunkB == <<0, 0, 0, 1, 1>>
ChunkLocations == {ChunkA, ChunkB}

\* block_info[None] of the chunk at loc when every chunk has yx shape yx.
BlockInfo(loc, yx) ==
    [chunk_location |-> loc,
     chunk_shape |-> <<1, 1, 1, yx[1], yx[2]>>,
     array_location |-> <<<<loc[1], loc[1] + 1>>, <<loc[2], loc[2] + 1>>,
                          <<loc[3], loc[3] + 1>>,
                          <<loc[4] * yx[1], (loc[4] + 1) * yx[1]>>,
                          <<loc[5] * yx[2], (loc[5] + 1) * yx[2]>>>>]

Ramp(shape) == [p \in Pixels(shape) |-> 1 + p[1] * shape[2] + p[2]]

\* The lists a tile map gives a chunk.
MapLists == {<<>>, <<1>>, <<1, 2>>, <<2, 1>>}

\* Two tiles, 2x3 and 1x2, the first anywhere in 0..MaxCoord, chunks of 2x2.
SmallMosaics ==
    [heap : {[t \in TileIds |->
                 IF t = 1
                 THEN [position |-> <<0, 0, 0, y, x>>, shape |-> <<2, 3>>,
                       data |-> Ramp(<<2, 3>>)]
                 ELSE [position |-> <<0, 0, 0, 1, 1>>, shape |-> <<1, 2>>,
                       data |-> ConstantArray(<<1, 2>>, 20)]] :
                 y \in 0..MaxCoord, x \in 0..MaxCoord},
     tile_map : [ChunkLocations -> MapLists],
     yx : {<<2, 2>>},
     policy : {"linear", "mean", "sum"}]

\* Two 4x4 tiles of constant values 10 and 20 at x = 0 and x = 2, assembled
\* with fuse_mean into one 4x6 block.
ExampleMosaic ==
    [heap |-> [t \in TileIds |->
                  [position |-> <<0, 0, 0, 0, 2 * (t - 1)>>, shape |-> <<4, 4>>,
                   data |-> ConstantArray(<<4, 4>>, 10 * t)]],
     tile_map |-> [loc \in ChunkLocations |->
                      IF loc = ChunkA THEN <<1, 2>> ELSE <<>>],
     yx |-> <<4, 6>>,
     policy |-> "mean"]

NoJob == [pc |-> "idle", tiles |-> <<>>, masks |-> <<>>]

AssembleInit ==
    /\ \E m \in SmallMosaics \cup {ExampleMosaic} :
          /\ heap = m.heap
          /\ tile_map = m.tile_map
          /\ block_infos = [loc \in ChunkLocations |-> BlockInfo(loc, m.yx)]
          /\ policy = m.policy
    /\ job = [loc \in ChunkLocations |-> NoJob]
    /\ stitched = [loc \in ChunkLocations |-> <<>>]
    /\ calls = [loc \in ChunkLocations |-> [invoked |-> 0, warp |-> 0, fuse |-> 0]]
    /\ FuseIdle
    /\ ShiftIdle

\* What the uninitialised memory a policy reads can hold; fuse_sum reads none.
UninitializedIn(p) == IF p = "sum" THEN {Num(FZero)} ELSE Uninitialized

\* The tile objects of a list of references.
Deref(list) == [i \in 1..Len(list) |-> heap[list[i]]]

\* assemble_chunk on a chunk without tiles (line 182).
AssembleEmpty(loc) ==
    /\ job[loc].pc = "idle"
    /\ calls[loc].invoked < MaxCalls
    /\ ~HasTiles(tile_map[loc])
    /\ stitched' = [stitched EXCEPT ![loc] = EmptyChunk(block_infos[loc].chunk_shape)]
    /\ calls' = [calls EXCEPT ![loc].invoked = @ + 1]
    /\ UNCHANGED <<heap, tile_map, block_infos, policy, job, fuse_vars, shift_vars>>

\* assemble_chunk up to the return of warp_func (lines 167-174).
AssembleWarp(loc) ==
    /\ job[loc].pc = "idle"
    /\ calls[loc].invoked < MaxCalls
    /\ HasTiles(tile_map[loc])
    /\ LET chunk_shape == block_infos[loc].chunk_shape
           w == translate_tiles_2d(block_infos[loc],
                                   <<chunk_shape[4], chunk_shape[5]>>,
                                   Deref(tile_map[loc]))
       IN  job' = [job EXCEPT ![loc] = [pc |-> "warped", tiles |-> w.tiles,
                                        masks |-> w.masks]]
    /\ calls' = [calls EXCEPT ![loc].invoked = @ + 1, ![loc].warp = @ + 1]
    /\ UNCHANGED <<heap, tile_map, block_infos, policy, stitched, fuse_vars, shift_vars>>

\* assemble_chunk from the call of fuse_func to the return (lines 176-184).
AssembleFuse(loc) ==
    /\ job[loc].pc = "warped"
    /\ policy = "linear" =>
          (Len(job[loc].tiles) = 1
           \/ EdtDefined(job[loc].masks, <<block_infos[loc].chunk_shape[4],
                                           block_infos[loc].chunk_shape[5]>>))
    /\ \E g \in UninitializedIn(policy) :
          LET chunk_shape == block_infos[loc].chunk_shape
              yx == <<chunk_shape[4], chunk_shape[5]>>
          IN  stitched' = [stitched EXCEPT ![loc] =
                  StitchedChunk(RunFuse(policy, job[loc].tiles, job[loc].masks, yx, g),
                                yx)]
    /\ job' = [job EXCEPT ![loc] = NoJob]
    /\ calls' = [calls EXCEPT ![loc].fuse = @ + 1]
    /\ UNCHANGED <<heap, tile_map, block_infos, policy, fuse_vars, shift_vars>>

AssembleNext ==
    \E loc \in ChunkLocations :
        AssembleEmpty(loc) \/ AssembleWarp(loc) \/ AssembleFuse(loc)

SpecAssemble == AssembleInit /\ [][AssembleNext]_vars

\* ------------------------------------------------------------------------
\* Properties of the fusion policies (checked under SpecFuse)
\* ------------------------------------------------------------------------

TileIndices == 1..Len(warped_tiles)

\* The tiles whose mask is True at pixel p.
Covering(p) == {i \in TileIndices : warped_masks[i][p]}

\* Sum of the values of the tiles of the set idx at pixel p.
RECURSIVE Total(_, _)
Total(idx, p) ==
    IF idx = {} THEN 0
    ELSE LET i == CHOOSE j \in idx : TRUE
         IN  warped_tiles[i][p] + Total(idx \ {i}, p)

\* Distance from pixel p of a one-row array to the nearest pixel at which
\* the mask of tile i is False.
BoundaryDistance(i, p) ==
    LET d == {IF q[2] > p[2] THEN q[2] - p[2] ELSE p[2] - q[2] :
                 q \in {o \in Pixels(yx_shape) : ~warped_masks[i][o]}}
    IN  CHOOSE m \in d : \A o \in d : m <= o

\* C4: after fuse_linear or fuse_mean, every pixel at which no mask is True
\* has fused value 0.
C4_UncoveredPixelIsZero ==
    fuse_func \in {"linear", "mean"} =>
        \A p \in Pixels(yx_shape) : Covering(p) = {} => fused[p] = 0

\* C5: after fuse_mean, every pixel covered by k >= 1 masks holds the
\* arithmetic mean of the k covering tiles, truncated to the dtype.
C5_MeanOfCoveringTiles ==
    fuse_func = "mean" =>
        \A p \in Pixels(yx_shape) :
            Covering(p) # {} =>
                fused[p] = AsType(Total(Covering(p), p) \div Cardinality(Covering(p)))

\* C8: after fuse_sum, every pixel holds the sum of the values of all tiles,
\* masked or not, modulo 2^DtypeBits; tiles of one value v give N*v where
\* that fits the dtype.
C8_SumModuloDtype ==
    fuse_func = "sum" =>
        \A p \in Pixels(yx_shape) :
            /\ fused[p] \in 0..(2^DtypeBits - 1)
            /\ (Total(TileIndices, p) - fused[p]) % (2^DtypeBits) = 0
            /\ \A v \in Values :
                  (/\ \A i \in TileIndices : warped_tiles[i][p] = v
                   /\ Len(warped_tiles) * v < 2^DtypeBits)
                  => fused[p] = Len(warped_tiles) * v

\* C8 witness: fuse_sum ran on a stack with a pixel whose mask is False for a
\* tile of non-zero value and whose sum exceeds the dtype.
C8_Witness ==
    /\ fuse_func = "sum"
    /\ \E p \in Pixels(yx_shape) :
          /\ \E i \in TileIndices : ~warped_masks[i][p] /\ warped_tiles[i][p] > 0
          /\ Total(TileIndices, p) >= 2^DtypeBits
          /\ fused[p] = Total(TileIndices, p) - 2^DtypeBits

\* C9: after fuse_linear on two or more tiles, at every pixel each weight is
\* in [0,1], the weights sum to 1 where some tile's distance transform is
\* positive (some tile covers the pixel), and all are 0 where none does.
C9_LinearWeightsNormalized ==
    (fuse_func = "linear" /\ Len(warped_tiles) >= 2) =>
        \A p \in Pixels(yx_shape) :
            /\ \A i \in TileIndices : FLeq(weights[i][p], FOne)
            /\ Covering(p) # {} =>
                  FSumTo([i \in TileIndices |-> weights[i][p]],
                         Len(warped_tiles), Float32Prec) = FOne
            /\ Covering(p) = {} => \A i \in TileIndices : weights[i][p] = FZero

\* The pixels at which both masks of a two-tile stack are True.
Overlap == {p \in Pixels(yx_shape) : Covering(p) = {1, 2}}

ShiftedPosition(i) == get_position(heap[shifted_tiles[i]])

\* C1: after shift_to_origin the returned list has the length and order of
\* the input, the component-wise minimum of the returned positions is
\* (0,0,0,0,0), and the difference of any two positions is what it was.
C1_MinimumIsOrigin ==
    shifted_tiles # <<>> =>
        /\ Len(shifted_tiles) = Len(tiles)
        /\ \A i \in 1..Len(tiles) : shifted_tiles[i] = tiles[i]
        /\ \A k \in 1..5 :
              /\ \A i \in 1..Len(tiles) : ShiftedPosition(i)[k] >= 0
              /\ \E i \in 1..Len(tiles) : ShiftedPosition(i)[k] = 0
        /\ \A i, j \in 1..Len(tiles) : \A k \in 1..5 :
              ShiftedPosition(i)[k] - ShiftedPosition(j)[k]
                  = input_positions[i][k] - input_positions[j][k]

\* C2: after shift_to_origin every tile of the input list still has the
\* position it had before the call.
C2_InputTilesKeepPosition ==
    shifted_tiles # <<>> =>
        \A i \in 1..Len(tiles) : get_position(heap[tiles[i]]) = input_positions[i]

\* ------------------------------------------------------------------------
\* Properties of assemble_chunk and translate_tiles_2d (checked under
\* SpecAssemble)
\* ------------------------------------------------------------------------

ChunkYX(loc) == <<block_infos[loc].chunk_shape[4], block_infos[loc].chunk_shape[5]>>

\* C3: a chunk without tiles in the tile map is returned as zeros of the
\* requested 5-D shape and dtype, and neither warp nor fuse has been called
\* for it.
C3_EmptyChunkIsZeros ==
    \A loc \in ChunkLocations :
        (tile_map[loc] = <<>> /\ calls[loc].invoked > 0) =>
            /\ stitched[loc].shape = block_infos[loc].chunk_shape
            /\ stitched[loc].dtype = DtypeBits
            /\ DOMAIN stitched[loc].data = Pixels(ChunkYX(loc))
            /\ \A p \in Pixels(ChunkYX(loc)) : stitched[loc].data[p] = 0
            /\ calls[loc].warp = 0
            /\ calls[loc].fuse = 0

\* C3 witness: assemble_chunk has returned for a chunk without tiles.
C3_Witness ==
    \E loc \in ChunkLocations :
        /\ tile_map[loc] = <<>>
        /\ calls[loc].invoked > 0
        /\ stitched[loc] # <<>>
        /\ \A p \in Pixels(ChunkYX(loc)) : stitched[loc].data[p] = 0

\* The 4x6 example has been assembled.
ExampleAssembled ==
    /\ heap = ExampleMosaic.heap
    /\ tile_map = ExampleMosaic.tile_map
    /\ policy = "mean"
    /\ ChunkYX(ChunkA) = <<4, 6>>
    /\ stitched[ChunkA] # <<>>

\* C6: the i-th array translate_tiles_2d returns has the block's yx shape,
\* its pixel (r, c) is the i-th tile's pixel (r + block_y - tile_y,
\* c + block_x - tile_x) where that lies in the tile and 0 elsewhere, and its
\* mask is True exactly in the first case; the 4x6 example assembles to
\* columns 0-1 = 10, 2-3 = 15, 4-5 = 20.
C6_TranslationIsExact ==
    /\ \A loc \in ChunkLocations :
          job[loc].pc = "warped" =>
              /\ Len(job[loc].tiles) = Len(tile_map[loc])
              /\ Len(job[loc].masks) = Len(tile_map[loc])
              /\ \A i \in 1..Len(tile_map[loc]) :
                    LET tile == heap[tile_map[loc][i]]
                        dy == block_infos[loc].array_location[4][1] - tile.position[4]
                        dx == block_infos[loc].array_location[5][1] - tile.position[5]
                    IN  /\ DOMAIN job[loc].tiles[i] = Pixels(ChunkYX(loc))
                        /\ DOMAIN job[loc].masks[i] = Pixels(ChunkYX(loc))
                        /\ \A p \in Pixels(ChunkYX(loc)) :
                              LET r == p[1] + dy
                                  c == p[2] + dx
                                  inside == /\ 0 <= r /\ r < tile.shape[1]
                                            /\ 0 <= c /\ c < tile.shape[2]
                              IN  /\ job[loc].masks[i][p] = inside
                                  /\ job[loc].tiles[i][p] =
                                        IF inside THEN tile.data[<<r, c>>] ELSE 0
    /\ ExampleAssembled =>
          \A p \in Pixels(<<4, 6>>) :
              stitched[ChunkA].data[p] =
                  IF p[2] <= 1 THEN 10 ELSE IF p[2] <= 3 THEN 15 ELSE 20

\* C6 witness: the example has been assembled and holds the three bands.
C6_Witness ==
    /\ ExampleAssembled
    /\ stitched[ChunkA].data[<<0, 0>>] = 10
    /\ stitched[ChunkA].data[<<3, 2>>] = 15
    /\ stitched[ChunkA].data[<<2, 5>>] = 20

====
